---------------------------- MODULE Spec2Model ----------------------------
(***************************************************************************)
(* PaperDigest (main.py): a sequential pipeline                            *)
(*   keyword fetch (arXiv) -> trending fetch (Hugging Face) -> title       *)
(*   deduplication -> per-paper summarize + webhook post.                  *)
(*                                                                         *)
(* Strings on which the code computes (titles under str.lower, categories  *)
(* under str.startswith) are sequences of one-character strings.  Times    *)
(* are whole hours; timedelta.days is the floor of the age in days.        *)
(* A JSON object is a function from keys to values, so that dict.get with  *)
(* a default is modelled by a test on the domain.                          *)
(***************************************************************************)
EXTENDS Integers, Sequences, FiniteSets, TLC

VARIABLES
    pc,                     \* position of the single thread of control
    kw,                     \* index of the keyword of the outer loop (line 40)
    results,                \* results the generator yielded for this keyword
    found_for_this_keyword, \* line 54 / 82
    collected_papers,       \* line 37
    seen_ids,               \* line 38
    yielded,                \* history: records appended per keyword index
    arxiv_error,            \* the except branch of line 184 was taken
    all_papers,             \* line 179
    max_results,            \* parameter of get_huggingface_daily_papers
    requests_log,           \* history: requests.get calls of the trending fetch
    resp,                   \* line 97 / 102
    hf_error,               \* the except branch of line 123 was taken
    hf_papers,              \* line 188
    idx,                    \* position of the loop of line 198 (1-based)
    summary,                \* line 200
    posts                   \* history: the embeds requests.post was called with

vars == <<pc, kw, results, found_for_this_keyword, collected_papers, seen_ids,
          yielded, arxiv_error, all_papers, max_results, requests_log, resp,
          hf_error, hf_papers, idx, summary, posts>>

arxivVars == <<kw, results, found_for_this_keyword, collected_papers,
               seen_ids, yielded>>
hfVars == <<max_results, requests_log, resp, hf_error, hf_papers>>
loopVars == <<idx, summary, posts>>

-----------------------------------------------------------------------------
(* Bounds of the model *)

MaxKeywords == 2    \* how many of the configured keywords are searched
MaxResults == 2     \* results one search yields (the code asks for up to 5)
MaxData == 3        \* entries in one trending response
MaxN == 3           \* largest max_results the trending fetch is called with

-----------------------------------------------------------------------------
(* Generic helpers *)

Range(s) == {s[i] : i \in 1..Len(s)}

Min(a, b) == IF a <= b THEN a ELSE b

Take(s, n) == SubSeq(s, 1, Min(n, Len(s)))

SeqsUpTo(S, n) == UNION {[1..k -> S] : k \in 0..n}

\* dict.get(key, default)
Get(d, key, default) == IF key \in DOMAIN d THEN d[key] ELSE default

EmptyDict == [k \in {} |-> 0]

\* Python truthiness of a dict
DictTruthy(d) == DOMAIN d # {}

-----------------------------------------------------------------------------
(* Strings *)

LowerChar(c) ==
    CASE c = "B" -> "b"
      [] c = "F" -> "f"
      [] c = "N" -> "n"
      [] c = "Q" -> "q"
      [] c = "O" -> "o"
      [] c = "H" -> "h"
      [] c = "U" -> "u"
      [] OTHER -> c

\* str.lower() (LowerIdentity: the string as it is)
LowerIdentity(s) == s

Lower(s) == [i \in 1..Len(s) |-> LowerChar(s[i])]

\* str.startswith(prefix)
StartsWith(s, prefix) ==
    /\ Len(prefix) <= Len(s)
    /\ SubSeq(s, 1, Len(prefix)) = prefix

-----------------------------------------------------------------------------
(* Configuration *)

ALL_KEYWORDS == <<"Agents", "Large Language Models", "Vision Language Models",
                  "LLM Personalization", "RAG", "Reasoning",
                  "Latent Reasoning">>

KEYWORDS == Take(ALL_KEYWORDS, MaxKeywords)

MODEL_NAME == "gpt-5-nano"

ARXIV_COLOR == 16711680
HF_COLOR == 16776960

-----------------------------------------------------------------------------
(* The search results the arXiv client can yield.  published is given as   *)
(* the age of the result, now - published, in hours.                       *)

cs_CL == <<"c", "s", ".", "C", "L">>
cs_AI == <<"c", "s", ".", "A", "I">>
stat_ML == <<"s", "t", "a", "t", ".", "M", "L">>
econ_GN == <<"e", "c", "o", "n", ".", "G", "N">>
eess_SY == <<"e", "e", "s", "s", ".", "S", "Y">>

T_foo_bar == <<"f", "o", "o", " ", "b", "a", "r">>
T_Foo_Bar == <<"F", "o", "o", " ", "B", "a", "r">>
T_Baz_Qux == <<"B", "a", "z", " ", "Q", "u", "x">>
T_baz_qux == <<"b", "a", "z", " ", "q", "u", "x">>
T_New == <<"N", "e", "w">>
T_Old == <<"O", "l", "d">>
T_Hot == <<"H", "o", "t">>
T_Unknown == <<"U", "n", "k", "n", "o", "w", "n">>

ArxivResults ==
    { [entry_id |-> "http://arxiv.org/abs/1", title |-> T_foo_bar,
       primary_category |-> cs_CL, age_hours |-> 10,
       summary |-> "abs1", authors |-> <<"A1", "A2", "A3", "A4">>],
      [entry_id |-> "http://arxiv.org/abs/2", title |-> T_New,
       primary_category |-> stat_ML, age_hours |-> 49,
       summary |-> "abs2", authors |-> <<"B1">>],
      [entry_id |-> "http://arxiv.org/abs/3", title |-> T_Baz_Qux,
       primary_category |-> cs_AI, age_hours |-> 48,
       summary |-> "abs3", authors |-> <<"C1", "C2">>],
      [entry_id |-> "http://arxiv.org/abs/4", title |-> T_Old,
       primary_category |-> cs_CL, age_hours |-> 73,
       summary |-> "abs4", authors |-> <<"D1">>],
      [entry_id |-> "http://arxiv.org/abs/5", title |-> T_New,
       primary_category |-> econ_GN, age_hours |-> 10,
       summary |-> "abs5", authors |-> <<"E1">>],
      [entry_id |-> "http://arxiv.org/abs/6", title |-> T_Old,
       primary_category |-> eess_SY, age_hours |-> 49,
       summary |-> "abs6", authors |-> <<"F1">>] }

-----------------------------------------------------------------------------
(* get_arxiv_papers_by_keywords *)

\* timedelta.days of an age given in hours
Days(age_hours) == age_hours \div 24

\* line 58
AlreadySeen(r) == r.entry_id \in seen_ids

\* line 62
TooOld(r) == Days(r.age_hours) > 2

\* line 69 (CategoryAny: the filter switched off)
CategoryAny(r) == TRUE

CategoryOk(r) ==
    \/ StartsWith(r.primary_category, <<"c", "s">>)
    \/ StartsWith(r.primary_category, <<"s", "t", "a", "t">>)

\* the three skips of lines 58-70, in the code's order
Skipped(r) == AlreadySeen(r) \/ TooOld(r) \/ ~CategoryOk(r)

\* the dict of lines 72-79
ArxivRecord(r) ==
    [source |-> [label |-> "Arxiv", category |-> r.primary_category],
     title |-> r.title,
     url |-> [prefix |-> "", id |-> r.entry_id],
     abstract |-> r.summary,
     authors |-> [first |-> Take(r.authors, 3), suffix |-> " et al."],
     color |-> ARXIV_COLOR]

\* where control goes after a result was accepted: the break of line 83
\* (NoBreak: the scan of the keyword goes on)
NoBreak == "scan"

AfterAccept == "after_scan"

\* One iteration of the loop of line 56: the generator yields a result,
\* which is skipped (continue) or accepted (append, add, break).
ScanResult ==
    /\ pc = "scan"
    /\ Len(results) < MaxResults
    /\ \E r \in ArxivResults :
        /\ results' = Append(results, r)
        /\ IF Skipped(r)
             THEN UNCHANGED <<pc, collected_papers, seen_ids,
                              found_for_this_keyword, yielded>>
             ELSE /\ collected_papers' = Append(collected_papers, ArxivRecord(r))
                  /\ seen_ids' = seen_ids \cup {r.entry_id}
                  /\ found_for_this_keyword' = TRUE
                  /\ yielded' = [yielded EXCEPT ![kw] = @ + 1]
                  /\ pc' = AfterAccept
    /\ UNCHANGED <<kw, arxiv_error, all_papers>>
    /\ UNCHANGED hfVars
    /\ UNCHANGED loopVars

\* The generator is exhausted: the loop of line 56 ends without a break.
ScanExhausted ==
    /\ pc = "scan"
    /\ pc' = "after_scan"
    /\ UNCHANGED <<kw, results, found_for_this_keyword, collected_papers,
                   seen_ids, yielded, arxiv_error, all_papers>>
    /\ UNCHANGED hfVars
    /\ UNCHANGED loopVars

\* Lines 85-86 and the next iteration of the loop of line 40 (lines 41-54).
NextKeyword ==
    /\ pc = "after_scan"
    /\ kw < Len(KEYWORDS)
    /\ kw' = kw + 1
    /\ results' = <<>>
    /\ found_for_this_keyword' = FALSE
    /\ pc' = "scan"
    /\ UNCHANGED <<collected_papers, seen_ids, yielded, arxiv_error, all_papers>>
    /\ UNCHANGED hfVars
    /\ UNCHANGED loopVars

\* what the except branch of lines 184-185 leaves in all_papers
\* (KeepPartial: the records collected so far)
KeepPartial == collected_papers

AfterArxivError == all_papers

\* the locals of get_arxiv_papers_by_keywords end with the call
ArxivFrameDropped ==
    /\ kw' = 1
    /\ results' = <<>>
    /\ found_for_this_keyword' = FALSE
    /\ collected_papers' = <<>>
    /\ seen_ids' = {}
    /\ UNCHANGED yielded

\* Line 88 returns and line 183 extends all_papers by the returned list.
ArxivReturn ==
    /\ pc = "after_scan"
    /\ kw = Len(KEYWORDS)
    /\ all_papers' = all_papers \o collected_papers
    /\ pc' = "hf_today"
    /\ ArxivFrameDropped
    /\ UNCHANGED <<arxiv_error>>
    /\ UNCHANGED hfVars
    /\ UNCHANGED loopVars

\* The search raises while the results of a keyword are fetched; the
\* exception leaves get_arxiv_papers_by_keywords and is caught at line 184.
ArxivRaise ==
    /\ pc = "scan"
    /\ arxiv_error' = TRUE
    /\ all_papers' = AfterArxivError
    /\ pc' = "hf_today"
    /\ ArxivFrameDropped
    /\ UNCHANGED hfVars
    /\ UNCHANGED loopVars

-----------------------------------------------------------------------------
(* The responses the trending endpoint can give.  A body is a JSON list of *)
(* entries, a JSON object (given by its keys), or not JSON at all, in      *)
(* which case resp.json() raises.                                          *)

HFEntries ==
    { [upvotes |-> 3,
       paper |-> [id |-> "h1", title |-> T_Foo_Bar, summary |-> "hs1"]],
      [upvotes |-> 9,
       paper |-> [id |-> "h2", title |-> T_Hot, summary |-> "hs2"]],
      [paper |-> [id |-> "h3", title |-> T_baz_qux, summary |-> "hs3"]],
      [upvotes |-> 7],
      [upvotes |-> 9, paper |-> [id |-> "h5"]] }

Bodies ==
    {[type |-> "invalid"]}
    \cup {[type |-> "dict", keys |-> {}], [type |-> "dict", keys |-> {"error"}]}
    \cup {[type |-> "list", items |-> s] : s \in SeqsUpTo(HFEntries, MaxData)}

StatusCodes == {200, 404}

Responses == [status_code : StatusCodes, body : Bodies]

NoResponse == [status_code |-> 0, body |-> [type |-> "none"]]

\* resp.json() raises
JsonRaises(r) == r.body.type = "invalid"

\* Python truthiness of resp.json()
JsonTruthy(r) ==
    \/ r.body.type = "list" /\ Len(r.body.items) > 0
    \/ r.body.type = "dict" /\ r.body.keys # {}

\* what a call of requests.get is remembered by
Observed(date, r) ==
    [date |-> date, raised |-> FALSE, status_code |-> r.status_code,
     body |-> IF JsonRaises(r) THEN "invalid"
              ELSE IF JsonTruthy(r) THEN "nonempty" ELSE "empty"]

Failed(date) == [date |-> date, raised |-> TRUE]

-----------------------------------------------------------------------------
(* get_huggingface_daily_papers *)

\* the key of line 107
Upvotes(x) == Get(x, "upvotes", 0)

\* insert x behind every element whose key is at least its own
RECURSIVE InsertDesc(_, _)
InsertDesc(x, s) ==
    IF s = <<>> THEN <<x>>
    ELSE IF Upvotes(s[1]) >= Upvotes(x)
           THEN <<s[1]>> \o InsertDesc(x, Tail(s))
           ELSE <<x>> \o s

\* the same list in ascending order
RECURSIVE SortAscending(_)
SortAscending(data) ==
    IF data = <<>> THEN <<>>
    ELSE LET rest == SortAscending(Tail(data))
             smaller == SelectSeq(rest, LAMBDA y : Upvotes(y) < Upvotes(data[1]))
             others == SelectSeq(rest, LAMBDA y : Upvotes(y) >= Upvotes(data[1]))
         IN smaller \o <<data[1]>> \o others

\* sorted(data, key=..., reverse=True): stable, descending
RECURSIVE SortedByUpvotes(_)
SortedByUpvotes(data) ==
    IF data = <<>> THEN <<>>
    ELSE InsertDesc(data[Len(data)], SortedByUpvotes(SubSeq(data, 1, Len(data) - 1)))

\* the slice [:max_results] of line 107, for max_results >= 0
Truncated(s, n) == Take(s, n)

\* the dict of lines 114-121
HFRecord(paper_info) ==
    [source |-> [label |-> "Hugging Face", category |-> <<>>],
     title |-> Get(paper_info, "title", T_Unknown),
     url |-> [prefix |-> "https://huggingface.co/papers/",
              id |-> Get(paper_info, "id", "")],
     abstract |-> Get(paper_info, "summary", ""),
     authors |-> [first |-> <<"Community Trending">>, suffix |-> ""],
     color |-> HF_COLOR]

\* the loop of lines 110-121
RECURSIVE MapPapers(_)
MapPapers(s) ==
    IF s = <<>> THEN <<>>
    ELSE LET paper_info == Get(s[1], "paper", EmptyDict)
         IN IF ~DictTruthy(paper_info)
              THEN MapPapers(Tail(s))
              ELSE <<HFRecord(paper_info)>> \o MapPapers(Tail(s))

\* the condition of line 99, for a response whose body is JSON
\* (StatusOnly: the status alone decides)
StatusOnly(r) == r.status_code # 200

NeedsFallback(r) == r.status_code # 200 \/ ~JsonTruthy(r)

\* the except branch of lines 123-125: the function returns []
HFExcept ==
    /\ hf_error' = TRUE
    /\ hf_papers' = <<>>
    /\ pc' = "dedup"

\* Lines 93-99: the request for today's date and the test of its response.
\* When the test sends the fetch to line 100, today's response is not read
\* again before line 102 overwrites it, and resp stays as it was.
HFRequestToday ==
    /\ pc = "hf_today"
    /\ \/ /\ requests_log' = Append(requests_log, Failed("today"))
          /\ HFExcept
          /\ UNCHANGED resp
       \/ \E r \in Responses :
            /\ requests_log' = Append(requests_log, Observed("today", r))
            /\ IF r.status_code = 200 /\ JsonRaises(r)
                 THEN /\ HFExcept
                      /\ resp' = r
                 ELSE IF NeedsFallback(r)
                 THEN /\ pc' = "hf_yesterday"
                      /\ UNCHANGED <<resp, hf_error, hf_papers>>
                 ELSE /\ pc' = "hf_parse"
                      /\ resp' = r
                      /\ UNCHANGED <<hf_error, hf_papers>>
    /\ UNCHANGED arxivVars
    /\ UNCHANGED <<arxiv_error, all_papers, max_results>>
    /\ UNCHANGED loopVars

\* Lines 100-102: the request for yesterday's date.
HFRequestYesterday ==
    /\ pc = "hf_yesterday"
    /\ \/ /\ requests_log' = Append(requests_log, Failed("yesterday"))
          /\ HFExcept
          /\ UNCHANGED resp
       \/ \E r \in Responses :
            /\ requests_log' = Append(requests_log, Observed("yesterday", r))
            /\ resp' = r
            /\ pc' = "hf_parse"
            /\ UNCHANGED <<hf_error, hf_papers>>
    /\ UNCHANGED arxivVars
    /\ UNCHANGED <<arxiv_error, all_papers, max_results>>
    /\ UNCHANGED loopVars

\* Lines 104-122: parse, sort, truncate and map the response.
HFParse ==
    /\ pc = "hf_parse"
    /\ IF JsonRaises(resp)
         THEN HFExcept
         ELSE /\ hf_papers' =
                   IF resp.body.type # "list" THEN <<>>
                   ELSE MapPapers(Truncated(SortedByUpvotes(resp.body.items),
                                            max_results))
              /\ pc' = "dedup"
              /\ UNCHANGED hf_error
    /\ UNCHANGED arxivVars
    /\ UNCHANGED <<arxiv_error, all_papers, max_results, requests_log, resp>>
    /\ UNCHANGED loopVars

-----------------------------------------------------------------------------
(* __main__ *)

\* the argument of line 188
HF_MAX_RESULTS == 3

\* line 191
existing_titles == {Lower(all_papers[i].title) : i \in 1..Len(all_papers)}

\* Lines 191-194.  The response of the trending fetch ended with the call.
Dedup ==
    /\ pc = "dedup"
    /\ all_papers' = all_papers \o
          SelectSeq(hf_papers, LAMBDA hf : Lower(hf.title) \notin existing_titles)
    /\ resp' = NoResponse
    /\ pc' = "summarize"
    /\ UNCHANGED arxivVars
    /\ UNCHANGED <<arxiv_error, max_results, requests_log, hf_error, hf_papers>>
    /\ UNCHANGED loopVars

Completions == {"TL;DR"}
Errors == {"timeout"}

\* line 149
Fallback(e) == <<"Summary failed: ", e>>

\* Lines 198-200: summarize_with_ai returns the completion, or the fallback
\* string when the request raises.
Summarize ==
    /\ pc = "summarize"
    /\ idx <= Len(all_papers)
    /\ \/ \E c \in Completions : summary' = <<c>>
       \/ \E e \in Errors : summary' = Fallback(e)
    /\ pc' = "post"
    /\ UNCHANGED arxivVars
    /\ UNCHANGED <<arxiv_error, all_papers, idx, posts>>
    /\ UNCHANGED hfVars

\* lines 153-173
Embed(paper_data, s) ==
    [title |-> paper_data.title,
     url |-> paper_data.url,
     description |-> s,
     color |-> paper_data.color,
     fields |-> <<[name |-> "Topic / Source", value |-> paper_data.source],
                  [name |-> "Authors", value |-> paper_data.authors]>>,
     footer |-> MODEL_NAME]

PostStatuses == {204, 429}

\* Line 201 with a response: send_discord_embed discards it and returns.
PostReturns ==
    /\ pc = "post"
    /\ \E st \in PostStatuses :
         /\ st \in PostStatuses
         /\ posts' = Append(posts, Embed(all_papers[idx], summary))
    /\ idx' = idx + 1
    /\ pc' = "summarize"
    /\ UNCHANGED arxivVars
    /\ UNCHANGED <<arxiv_error, all_papers, summary>>
    /\ UNCHANGED hfVars

\* Line 201 when requests.post raises: nothing catches the exception, which
\* leaves send_discord_embed and the loop of line 198 and ends the process.
PostRaises ==
    /\ pc = "post"
    /\ posts' = Append(posts, Embed(all_papers[idx], summary))
    /\ pc' = "crashed"
    /\ UNCHANGED arxivVars
    /\ UNCHANGED <<arxiv_error, all_papers, idx, summary>>
    /\ UNCHANGED hfVars

\* Line 203: the loop is over.
Finish ==
    /\ pc = "summarize"
    /\ idx > Len(all_papers)
    /\ pc' = "done"
    /\ UNCHANGED arxivVars
    /\ UNCHANGED <<arxiv_error, all_papers>>
    /\ UNCHANGED hfVars
    /\ UNCHANGED loopVars

-----------------------------------------------------------------------------
(* Specifications *)

InitCommon ==
    /\ kw = 1
    /\ results = <<>>
    /\ found_for_this_keyword = FALSE
    /\ collected_papers = <<>>
    /\ seen_ids = {}
    /\ yielded = [k \in 1..Len(KEYWORDS) |-> 0]
    /\ arxiv_error = FALSE
    /\ all_papers = <<>>
    /\ requests_log = <<>>
    /\ resp = NoResponse
    /\ hf_error = FALSE
    /\ hf_papers = <<>>
    /\ idx = 1
    /\ summary = <<>>
    /\ posts = <<>>

\* the whole run of the script
Init ==
    /\ InitCommon
    /\ pc = "scan"
    /\ max_results = HF_MAX_RESULTS

Next ==
    \/ ScanResult
    \/ ScanExhausted
    \/ NextKeyword
    \/ ArxivReturn
    \/ ArxivRaise
    \/ HFRequestToday
    \/ HFRequestYesterday
    \/ HFParse
    \/ Dedup
    \/ Summarize
    \/ PostReturns
    \/ PostRaises
    \/ Finish

Spec == Init /\ [][Next]_vars

\* one call of get_huggingface_daily_papers, for every requested count
InitHF ==
    /\ InitCommon
    /\ pc = "hf_today"
    /\ max_results \in 0..MaxN

NextHF ==
    \/ HFRequestToday
    \/ HFRequestYesterday
    \/ HFParse

SpecHF == InitHF /\ [][NextHF]_vars

-----------------------------------------------------------------------------
(* Vocabulary of the properties, stated without the operators above *)

InKeywordFetch == pc \in {"scan", "after_scan"}

AfterDedup == pc \in {"summarize", "post", "done", "crashed"}

IsKeywordRecord(p) == p.source.label = "Arxiv"

KeywordRecords(s) == SelectSeq(s, IsKeywordRecord)

RECURSIVE SumYielded(_)
SumYielded(k) == IF k = 0 THEN 0 ELSE yielded[k] + SumYielded(k - 1)

\* the search result a keyword record was built from
ResultOf(p) == CHOOSE r \in ArxivResults : r.entry_id = p.url.id

HoursPerDay == 24

CategoryIsCsOrStat(c) ==
    \/ Len(c) >= 2 /\ c[1] = "c" /\ c[2] = "s"
    \/ Len(c) >= 4 /\ c[1] = "s" /\ c[2] = "t" /\ c[3] = "a" /\ c[4] = "t"

CasePairs == {<<"B", "b">>, <<"F", "f">>, <<"N", "n">>, <<"Q", "q">>,
              <<"O", "o">>, <<"H", "h">>, <<"U", "u">>}

SameLetter(c, d) == c = d \/ <<c, d>> \in CasePairs \/ <<d, c>> \in CasePairs

\* equality of two titles up to case
SameTitle(a, b) ==
    /\ Len(a) = Len(b)
    /\ \A i \in 1..Len(a) : SameLetter(a[i], b[i])

-----------------------------------------------------------------------------
(* C1: in one run of the keyword fetch every keyword adds at most one      *)
(* record to the collected papers, so that the collected papers, and the   *)
(* keyword records of the merged list, are never more than the keywords.   *)
C1_AtMostOnePerKeyword ==
    /\ \A k \in 1..Len(KEYWORDS) : yielded[k] <= 1
    /\ InKeywordFetch => Len(collected_papers) = SumYielded(Len(KEYWORDS))
    /\ Len(collected_papers) <= Len(KEYWORDS)
    /\ Len(KeywordRecords(all_papers)) <= Len(KEYWORDS)

\* every keyword was searched and gave its one record
C1_Witness ==
    /\ pc = "after_scan"
    /\ kw = Len(KEYWORDS)
    /\ \A k \in 1..Len(KEYWORDS) : yielded[k] = 1
    /\ Len(collected_papers) = Len(KEYWORDS)

(* C2: no record the keyword fetch collects comes from a result published  *)
(* more than 2 days (48 hours) before now, results aged between 2 and 3    *)
(* days included.                                                          *)
C2_NeverOlderThanTwoDays ==
    /\ \A i \in 1..Len(collected_papers) :
          ResultOf(collected_papers[i]).age_hours <= 2 * HoursPerDay
    /\ \A i \in 1..Len(all_papers) :
          IsKeywordRecord(all_papers[i])
             => ResultOf(all_papers[i]).age_hours <= 2 * HoursPerDay

(* C6: no record the keyword fetch collects has a primary category that    *)
(* starts with neither "cs" nor "stat".                                    *)
C6_OnlyCsOrStat ==
    /\ \A i \in 1..Len(collected_papers) :
          CategoryIsCsOrStat(collected_papers[i].source.category)
    /\ \A i \in 1..Len(all_papers) :
          IsKeywordRecord(all_papers[i])
             => CategoryIsCsOrStat(all_papers[i].source.category)

\* a fresh result of another category was passed over and a later result
\* of the same keyword was accepted
C6_Witness ==
    /\ InKeywordFetch
    /\ found_for_this_keyword
    /\ Len(results) >= 2
    /\ ~CategoryIsCsOrStat(results[1].primary_category)
    /\ results[1].age_hours < HoursPerDay
    /\ results[1].entry_id \notin seen_ids

-----------------------------------------------------------------------------
\* the identifiers collected for the keywords before the current one
PriorIds ==
    {collected_papers[i].url.id :
        i \in 1..(Len(collected_papers) - yielded[kw])}

\* the three filters on the results of the current keyword: the identifier
\* was not collected for an earlier keyword, the result is not older than
\* 2 days, its category is cs or stat
Passes(r) ==
    /\ r.entry_id \notin PriorIds
    /\ r.age_hours <= 2 * HoursPerDay
    /\ CategoryIsCsOrStat(r.primary_category)

\* the same with the age counted in whole days, as timedelta.days counts it
PassesInWholeDays(r) ==
    /\ r.entry_id \notin PriorIds
    /\ r.age_hours \div HoursPerDay <= 2
    /\ CategoryIsCsOrStat(r.primary_category)

\* the scan of the current keyword accepted the first result that P admits
\* and none before it, and accepted nothing only if P admits no result
AcceptsFirst(P(_)) ==
    /\ found_for_this_keyword <=> yielded[kw] = 1
    /\ found_for_this_keyword =>
          /\ results # <<>>
          /\ P(results[Len(results)])
          /\ \A i \in 1..(Len(results) - 1) : ~P(results[i])
          /\ collected_papers # <<>>
          /\ collected_papers[Len(collected_papers)].url.id
                = results[Len(results)].entry_id
          /\ collected_papers[Len(collected_papers)].title
                = results[Len(results)].title
    /\ ~found_for_this_keyword =>
          \A i \in 1..Len(results) : ~P(results[i])

DistinctUrls ==
    \A i, j \in 1..Len(collected_papers) :
       collected_papers[i].url = collected_papers[j].url => i = j

(* C10: for each keyword the fetcher accepts exactly the first result, in  *)
(* returned order, that passes the three filters (not collected for an     *)
(* earlier keyword, fresh, category cs or stat), and yields no record only *)
(* if no result passes; a result skipped as already collected does not end *)
(* the scan; the collected records have pairwise distinct URLs.            *)
C10_FirstPassingResult ==
    InKeywordFetch => AcceptsFirst(Passes) /\ DistinctUrls

\* The scan order itself: with the age counted in whole days the fetcher
\* accepts exactly the first admitted result, and the URLs are distinct.
ScanAcceptsFirstInWholeDays ==
    InKeywordFetch => AcceptsFirst(PassesInWholeDays) /\ DistinctUrls

\* the first result of a later keyword was skipped as already collected and
\* the scan went on to accept the second
ScanPastSeenResult ==
    /\ InKeywordFetch
    /\ kw > 1
    /\ found_for_this_keyword
    /\ Len(results) = 2
    /\ results[1].entry_id \in PriorIds
    /\ results[1].age_hours < HoursPerDay
    /\ CategoryIsCsOrStat(results[1].primary_category)

-----------------------------------------------------------------------------
(* C8: an exception in the keyword fetch aborts only that phase: no        *)
(* keyword record collected before it is in the merged list, and the run   *)
(* is in the trending fetch or beyond.                                     *)
C8_ArxivErrorLosesPartial ==
    arxiv_error =>
      /\ ~InKeywordFetch
      /\ KeywordRecords(all_papers) = <<>>
      /\ AfterDedup => all_papers = hf_papers

\* the exception came after a record was collected, and the run went on to
\* post trending papers and to end
C8_Witness ==
    /\ arxiv_error
    /\ yielded[1] = 1
    /\ pc = "done"
    /\ Len(posts) >= 2

-----------------------------------------------------------------------------
(* C3: the deduplication keeps every keyword record and appends no         *)
(* trending record whose title equals, up to case, the title of a keyword  *)
(* record; every other trending record is appended.                        *)
C3_Dedup ==
    [][pc = "dedup" =>
         /\ \A i \in 1..Len(all_papers) : all_papers'[i] = all_papers[i]
         /\ \A j \in 1..Len(hf_papers) :
              (\E i \in 1..Len(all_papers) :
                   SameTitle(all_papers[i].title, hf_papers[j].title))
                <=> hf_papers[j] \notin Range(all_papers')]_vars

\* a trending record was dropped for a keyword record whose title differs
\* from its own in case only
C3_Witness ==
    /\ AfterDedup
    /\ \E j \in 1..Len(hf_papers) :
          /\ hf_papers[j] \notin Range(all_papers)
          /\ \E i \in 1..Len(all_papers) :
                /\ IsKeywordRecord(all_papers[i])
                /\ SameTitle(all_papers[i].title, hf_papers[j].title)
                /\ all_papers[i].title # hf_papers[j].title

-----------------------------------------------------------------------------
\* the trending fetch has sent its requests
RequestsOver == pc \in {"hf_parse", "dedup"} \/ AfterDedup

(* C4: the trending fetch first asks for today's date; when that request   *)
(* returns a non-success status or an empty body it sends exactly one      *)
(* further request, for yesterday's date, whatever that one returns; when  *)
(* today's response is a success with a non-empty body it sends no second  *)
(* request.                                                                *)
C4_FallbackOnce ==
    /\ Len(requests_log) <= 2
    /\ requests_log # <<>> => requests_log[1].date = "today"
    /\ Len(requests_log) = 2 => requests_log[2].date = "yesterday"
    /\ pc = "hf_yesterday" => Len(requests_log) = 1
    /\ (RequestsOver /\ ~requests_log[1].raised) =>
          /\ (requests_log[1].status_code # 200 \/ requests_log[1].body = "empty")
                => Len(requests_log) = 2
          /\ (requests_log[1].status_code = 200 /\ requests_log[1].body = "nonempty")
                => Len(requests_log) = 1

\* today's response was a success with an empty list, yesterday's was empty
\* too, and the fetch returned after these two requests
C4_Witness ==
    /\ pc = "dedup"
    /\ Len(requests_log) = 2
    /\ ~requests_log[1].raised
    /\ requests_log[1].status_code = 200
    /\ requests_log[1].body = "empty"
    /\ ~requests_log[2].raised
    /\ requests_log[2].body = "empty"

-----------------------------------------------------------------------------
\* the trending fetch returned what it made of a JSON list
ReturnedFromList == pc = "dedup" /\ ~hf_error /\ resp.body.type = "list"

VotesOf(x) == IF "upvotes" \in DOMAIN x THEN x.upvotes ELSE 0

HasPaper(x) == "paper" \in DOMAIN x

\* sel lists the positions of the n entries of d with the highest upvotes,
\* in descending order of upvotes
IsTopN(sel, d, n) ==
    /\ Len(sel) = Min(n, Len(d))
    /\ \A i, j \in 1..Len(sel) : i < j =>
          /\ sel[i] # sel[j]
          /\ VotesOf(d[sel[i]]) >= VotesOf(d[sel[j]])
    /\ \A k \in 1..Len(d) : k \notin Range(sel) =>
          \A i \in 1..Len(sel) : VotesOf(d[sel[i]]) >= VotesOf(d[k])

\* record p was made from entry x
MadeFrom(p, x) ==
    /\ HasPaper(x)
    /\ p.url.id = (IF "id" \in DOMAIN x.paper THEN x.paper.id ELSE "")
    /\ p.title = (IF "title" \in DOMAIN x.paper THEN x.paper.title ELSE T_Unknown)
    /\ p.source.label = "Hugging Face"

Selections(d, n) == [1..Min(n, Len(d)) -> 1..Len(d)]

(* C5 as stated: the trending fetch returns at most N records, and they    *)
(* are the entries with the N highest upvote counts, in descending order   *)
(* of upvotes (missing upvotes counted as 0).                              *)
C5_TopNReturned ==
    ReturnedFromList =>
      /\ Len(hf_papers) <= max_results
      /\ \E sel \in Selections(resp.body.items, max_results) :
            /\ IsTopN(sel, resp.body.items, max_results)
            /\ Len(hf_papers) = Len(sel)
            /\ \A i \in 1..Len(sel) :
                  MadeFrom(hf_papers[i], resp.body.items[sel[i]])

(* C5 as amended: the trending fetch returns at most N records: the        *)
(* entries with the N highest upvote counts that carry a paper object, in  *)
(* descending order of upvotes (missing upvotes counted as 0); an entry    *)
(* among the N highest without a paper object is left out and not replaced.*)
C5_TopNWithPaperReturned ==
    ReturnedFromList =>
      /\ Len(hf_papers) <= max_results
      /\ \E sel \in Selections(resp.body.items, max_results) :
            /\ IsTopN(sel, resp.body.items, max_results)
            /\ LET kept == SelectSeq(sel,
                              LAMBDA k : HasPaper(resp.body.items[k]))
               IN /\ Len(hf_papers) = Len(kept)
                  /\ \A i \in 1..Len(kept) :
                        MadeFrom(hf_papers[i], resp.body.items[kept[i]])

\* a list longer than the requested count, not in descending order, whose
\* top entries include one without a paper object
C5_Witness ==
    /\ ReturnedFromList
    /\ max_results >= 2
    /\ Len(resp.body.items) > max_results
    /\ VotesOf(resp.body.items[1]) < VotesOf(resp.body.items[Len(resp.body.items)])
    /\ hf_papers # <<>>
    /\ Len(hf_papers) < max_results

-----------------------------------------------------------------------------
(* C7: a failed webhook post is dropped: whatever the outcome of a post,   *)
(* the run neither ends there nor posts again, and goes on until every     *)
(* paper of the merged list was posted once.                               *)
C7_FailedPostDropped ==
    /\ pc # "crashed"
    /\ pc \in {"summarize", "done"} => Len(posts) = idx - 1
    /\ pc = "done" => Len(posts) = Len(all_papers)

(* C9: the run ends only after every paper of the merged list was          *)
(* summarized and posted exactly once, in list order, with the completion  *)
(* or the fallback string as its description.                              *)
C9_EveryPaperPostedOnce ==
    pc \in {"done", "crashed"} =>
      /\ Len(posts) = Len(all_papers)
      /\ \A i \in 1..Len(posts) :
            /\ posts[i].title = all_papers[i].title
            /\ posts[i].url = all_papers[i].url
            /\ \/ \E c \in Completions : posts[i].description = <<c>>
               \/ \E e \in Errors :
                     posts[i].description = <<"Summary failed: ", e>>

=============================================================================
